---- MODULE Spec2Model ----
(***************************************************************************)
(* Resumable chunked scan engine of the Minervini screener bot             *)
(* (render_bot.py): the checkpoint file, the result file, the process-wide *)
(* is_scanning flag, the run_chunked_scan coroutine and the command        *)
(* handlers that run beside it on the one asyncio event loop.              *)
(*                                                                         *)
(* Scheduling.  Every coroutine runs on main_loop, so the code between two *)
(* awaits is atomic with respect to the other coroutines.  A coroutine's   *)
(* position is its pc; the positions in AwaitPcs are the awaits (a send, a *)
(* sleep, a task waiting to be run), every other position is synchronous   *)
(* code during which no handler can run (LoopFree).  The Flask route       *)
(* trigger_scan runs in its own thread and a process crash can happen at   *)
(* any position.                                                           *)
(***************************************************************************)
EXTENDS Integers, Sequences, FiniteSets, TLC

(* ---------------------------- bounds ----------------------------------- *)
\* Length of the Nifty list (get_nse_stock_list) in the model.
NumFull == 2
\* Length of the all-NSE list (get_all_nse_stocks) in the model.
NumAll == 3
\* Stocks per chunk in the model (CHUNK_SIZE is 30 in the source).
ChunkBound == 2
\* A progress message every ProgressEvery chunks (5 in the source).
ProgressEvery == 2
\* Coroutines (tasks and suspended handlers) alive at the same time.
MaxTasks == 2
\* Symbols of the quick scan (the first 50 of the Nifty list in the source).
QuickSize == 1
\* The cooldown of an alert in clock ticks (ALERT_COOLDOWN_HOURS is 24 hours).
CooldownTicks == 2
\* The clock of the alert manager runs from 0 to MaxTime.
MaxTime == 3
\* record_alert is called for a symbol while its alert_count is below MaxCount.
MaxCount == 2
\* clear_old_alerts is called with 0..MaxDays ticks to keep.
MaxDays == 2
\* get_recent_alerts is called with 0..MaxHours ticks to look back.
MaxHours == 2
\* The period of the long moving average in sessions (200 in the code).
SmaLong == 2
\* The sessions the long moving average is looked back over (22 in the code).
UptrendDays == 1
\* The price history of a symbol has up to MaxHist sessions.
MaxHist == 4

(* ---------------------------- constants -------------------------------- *)
CHUNK_SIZE == ChunkBound
MIN_SCORE == 9
MAX_SCORE == 9

Tasks == 1..MaxTasks
ChunkedTypes == {"fullscan", "scanall"}
NoState == [none |-> TRUE]
\* What check_trend_template gives for one symbol: no result (None or an
\* exception) or a result with a score; MAX_SCORE - 1 stands for every
\* score below MAX_SCORE.
Outcomes ==
    {[found |-> FALSE, score |-> 0]}
        \cup {[found |-> TRUE, score |-> n] : n \in {MAX_SCORE - 1, MAX_SCORE}}
ChatId == "chat"
\* scan_stocks is not being returned from
NoOutcomes == <<>>

ALERT_COOLDOWN == CooldownTicks

\* config.py lines 21-30; line 118 and line 146 write the long period as 200
MA_LONG == SmaLong
MIN_200_SMA_UPTREND_DAYS == UptrendDays
MIN_PERCENT_ABOVE_52W_LOW == 30
MAX_PERCENT_FROM_52W_HIGH == 25
\* data_fetcher.py lines 140-142: the SMA of a history too short for it
None == 0
\* prices of a snapshot: they put the price below, at and above an SMA, at
\* 30% above a low of 10 (13) and at 25% below a high of 4 (3)
Prices == {3, 4, 10, 13}
\* closing prices of the sessions of a history
Closes == {1, 2}
\* get_stock_info returned None
NoInfo == [found |-> FALSE, current_price |-> 0, sma_50 |-> None,
           sma_150 |-> None, sma_200 |-> None, week_52_high |-> 0,
           week_52_low |-> 0]
\* get_stock_info, lines 135-176: the 52-week low and high bound the last
\* close and every SMA; an SMA is None when the history is shorter than
\* its period, so a longer period's SMA is None whenever a shorter one's is
Infos ==
    {NoInfo} \cup
    {i \in [found : {TRUE}, current_price : Prices,
            sma_50 : Prices \cup {None}, sma_150 : Prices \cup {None},
            sma_200 : Prices \cup {None},
            week_52_high : Prices, week_52_low : Prices] :
        /\ i.week_52_low <= i.current_price
        /\ i.current_price <= i.week_52_high
        /\ \A sma \in {i.sma_50, i.sma_150, i.sma_200} :
              sma # None => i.week_52_low <= sma /\ sma <= i.week_52_high
        /\ i.sma_50 = None => i.sma_150 = None
        /\ i.sma_150 = None => i.sma_200 = None}
\* get_historical_prices returned None
NoHist == [found |-> FALSE, close |-> <<>>]
\* get_historical_prices, lines 188-213: None, or a history that is not empty
Hists ==
    {NoHist} \cup
    {[found |-> TRUE, close |-> c] :
        c \in UNION {[1..n -> Closes] : n \in 1..MaxHist}}
\* check_trend_template returned None
NoResult == [none |-> TRUE, criteria |-> <<>>, score |-> 0, passes_all |-> FALSE]
\* check_trend_template is not being called
NoEvaluation == [stage |-> "idle", info |-> NoInfo, hist |-> NoHist,
                 result |-> NoResult, warning |-> "none"]
\* the symbols alerts are recorded for: the methods of the alert manager
\* treat each symbol by itself, two of them show every case
AlertSymbols == {1, 2}
\* the details argument of record_alert: None, or a dict
DetailsArgs == {"none", "dict"}
\* _ensure_file_exists: the history file is created holding {}
NoHistory == <<>>
\* no AlertManager method was called yet
NoCall == [op |-> "none", symbol |-> 0, details |-> "none", days |-> 0,
           answer |-> FALSE, removed |-> 0, hours |-> 0, recent |-> <<>>]
\* no alert was sent for a symbol yet
Never == -1
\* run_scan is not being called and no alert was sent yet
NoRunScan == [pc |-> "idle", results |-> <<>>, send_alerts |-> FALSE,
              last_sent |-> [s \in AlertSymbols |-> Never],
              sends |-> [s \in AlertSymbols |-> 0]]
\* no checkpoint on disk and no run_chunked_scan under way
NoStamped == [pc |-> "idle", scan_type |-> "fullscan", offset |-> 0,
              state |-> NoState, file |-> NoState, fresh |-> FALSE, began |-> 0]
\* no /health request was answered yet
NoHealth == [none |-> TRUE]

Min(a, b) == IF a < b THEN a ELSE b

Range(s) == {s[i] : i \in 1..Len(s)}

\* get_nse_stock_list / get_all_nse_stocks: duplicate-free symbol lists.
AllStocks(scan_type) ==
    IF scan_type = "scanall" THEN [i \in 1..NumAll |-> i]
    ELSE [i \in 1..NumFull |-> i]

TotalStocks(scan_type) == Len(AllStocks(scan_type))

\* all_stocks[offset:offset + CHUNK_SIZE]
Chunk(scan_type, off) ==
    SubSeq(AllStocks(scan_type), off + 1,
           Min(off + CHUNK_SIZE, TotalStocks(scan_type)))

\* the indices (0-based) of the chunk that starts at off
ChunkIndices(scan_type, off) ==
    {i \in 0..(TotalStocks(scan_type) - 1) : i >= off /\ i < off + CHUNK_SIZE}

\* all orderings of a finite set, as sequences without repetition
Orderings(S) ==
    {s \in [1..Cardinality(S) -> S] : \A i, j \in 1..Cardinality(S) : i # j => s[i] # s[j]}

EmptyResults(scan_type) ==
    [stocks |-> <<>>, scan_type |-> scan_type, completed_at |-> FALSE, total_scanned |-> 0]


(* ------------------------- pure functions ------------------------------ *)
Symbols(stocks) == {stocks[i].symbol : i \in 1..Len(stocks)}

\* add_to_scan_results without the test for a symbol already present
AddToScanResultsNoDedup(results, stock_data, scan_type) ==
    LET r1 == IF results.scan_type # scan_type
              THEN [stocks |-> <<>>, scan_type |-> scan_type,
                    completed_at |-> FALSE, total_scanned |-> 0]
              ELSE results
    IN  [r1 EXCEPT !.stocks = Append(r1.stocks, stock_data)]

\* add_to_scan_results without the reset for another scan type
AddToScanResultsNoReset(results, stock_data, scan_type) ==
    IF stock_data.symbol \notin Symbols(results.stocks)
    THEN [results EXCEPT !.stocks = Append(results.stocks, stock_data)]
    ELSE results

\* add_to_scan_results: the document written back by save_scan_results
AddToScanResults(results, stock_data, scan_type) ==
    LET r1 == IF results.scan_type # scan_type
              THEN EmptyResults(scan_type)
              ELSE results
    IN  IF stock_data.symbol \notin Symbols(r1.stocks)
        THEN [r1 EXCEPT !.stocks = Append(r1.stocks, stock_data)]
        ELSE r1

\* lines 245-251: the summary stored for a result of the chunk loop
StockData(r) == [symbol |-> r.symbol, score |-> r.score, found_at |-> TRUE]

\* line 784: the summary stored by quick_scan, which has no found_at
QuickData(r) == [symbol |-> r.symbol, score |-> r.score, found_at |-> FALSE]

\* the filter of scan_stocks letting through one score too low
QualifiesBelow(o, min_score) == o.found /\ o.score >= min_score - 1

\* the filter of scan_stocks: a result (not None) with score >= min_score
Qualifies(o, min_score) == o.found /\ o.score >= min_score

\* scan_stocks giving up at the first symbol whose evaluation fails
ScanStocksStopAtError(symbols, min_score, oc) ==
    LET bad == {i \in 1..Len(symbols) : ~oc[symbols[i]].found}
        n == IF bad = {} THEN Len(symbols)
             ELSE (CHOOSE i \in bad : \A j \in bad : i <= j) - 1
        found == {[symbol |-> s, score |-> oc[s].score] :
                     s \in {x \in Range(SubSeq(symbols, 1, n)) :
                               Qualifies(oc[x], min_score)}}
    IN  {r \in Orderings(found) :
            \A i, j \in 1..Len(r) : i < j => r[i].score >= r[j].score}

\* scan_stocks: the lists it can return for the per-symbol outcomes oc;
\* results.sort(key=(score, -pct_from_52w_high), reverse=True) puts higher
\* scores first, the order among equal scores depends on market data.
ScanStocks(symbols, min_score, oc) ==
    LET found == {[symbol |-> s, score |-> oc[s].score] :
                     s \in {x \in Range(symbols) : Qualifies(oc[x], min_score)}}
    IN  {r \in Orderings(found) :
            \A i, j \in 1..Len(r) : i < j => r[i].score >= r[j].score}

\* ShouldResume that takes no checkpoint up
ShouldResumeNever(state, scan_type, total_stocks) == FALSE

\* ShouldResume without the comparison of the scan types
ShouldResumeAnyType(state, scan_type, total_stocks) ==
    /\ state # NoState
    /\ state.offset < total_stocks

\* line 201: resume the existing scan, or start a new one
ShouldResume(state, scan_type, total_stocks) ==
    /\ state # NoState
    /\ state.scan_type = scan_type
    /\ state.offset < total_stocks

\* Checkpoint written with the offset already moved past the chunk
CheckpointAhead(scan_type, off, total_stocks, chat_id) ==
    [scan_type |-> scan_type, offset |-> off + CHUNK_SIZE, total |-> total_stocks,
     chat_id |-> chat_id, stopped |-> FALSE]

\* lines 232-238: the checkpoint written before a chunk is scanned; it has
\* no 'stopped' key, which state.get('stopped') reads like False
Checkpoint(scan_type, off, total_stocks, chat_id) ==
    [scan_type |-> scan_type, offset |-> off, total |-> total_stocks,
     chat_id |-> chat_id, stopped |-> FALSE]

\* state.get('stopped')
Stopped(state) == state # NoState /\ state.stopped

\* GateOpen without the test of the flag
GateOpenAlways(flag) == TRUE

\* lines 182-185: the single-flight gate lets a call in
GateOpen(flag) == ~flag

\* the offset left where it is
AdvanceOffsetStuck(off) == off

\* line 268
AdvanceOffset(off) == off + CHUNK_SIZE

\* line 228
ChunkNum(off) == (off \div CHUNK_SIZE) + 1

(* ----------------------------- evaluator ------------------------------- *)
\* the sum of the `period` values of prices that end at position `last`
RECURSIVE WindowSum(_, _, _)
WindowSum(prices, period, last) ==
    IF period = 0 THEN 0
    ELSE prices[last] + WindowSum(prices, period - 1, last - 1)

\* prices.rolling(window=period).mean() at position `at`, as a fraction
RollingMean(prices, period, at) ==
    [num |-> WindowSum(prices, period, at), den |-> period]

\* a > b for two fractions with positive denominators
Greater(a, b) == a.num * b.den > b.num * a.den

\* is_sma_trending_up comparing with the SMA of one session less ago
IsSmaTrendingUpShort(prices, sma_period, lookback_days) ==
    IF Len(prices) < lookback_days + sma_period THEN FALSE
    ELSE Greater(RollingMean(prices, sma_period, Len(prices)),
                 RollingMean(prices, sma_period, Len(prices) - (lookback_days - 1)))

\* is_sma_trending_up, lines 88-98: iloc[-1] against iloc[-(lookback_days + 1)]
IsSmaTrendingUp(prices, sma_period, lookback_days) ==
    IF Len(prices) < lookback_days + sma_period THEN FALSE
    ELSE Greater(RollingMean(prices, sma_period, Len(prices)),
                 RollingMean(prices, sma_period, Len(prices) - lookback_days))

\* line 138: ((current_price - week_52_low) / week_52_low) * 100
PctAbove52wLow(info) ==
    [num |-> (info.current_price - info.week_52_low) * 100,
     den |-> info.week_52_low]

\* line 139: ((week_52_high - current_price) / week_52_high) * 100
PctFrom52wHigh(info) ==
    [num |-> (info.week_52_high - info.current_price) * 100,
     den |-> info.week_52_high]

\* the criteria with the price compared with the 150-day SMA by >=
CriteriaTiesPass(info, prices) ==
    << [key |-> "1_price_above_150sma",
        value |-> info.current_price >= info.sma_150],
       [key |-> "2_price_above_200sma",
        value |-> info.current_price > info.sma_200],
       [key |-> "3_150sma_above_200sma",
        value |-> info.sma_150 > info.sma_200],
       [key |-> "4_200sma_trending_up",
        value |-> IsSmaTrendingUp(prices, MA_LONG, MIN_200_SMA_UPTREND_DAYS)],
       [key |-> "5_50sma_above_150sma",
        value |-> info.sma_50 > info.sma_150],
       [key |-> "6_50sma_above_200sma",
        value |-> info.sma_50 > info.sma_200],
       [key |-> "7_price_above_50sma",
        value |-> info.current_price > info.sma_50],
       [key |-> "8_price_30pct_above_52w_low",
        value |-> PctAbove52wLow(info).num
                     >= MIN_PERCENT_ABOVE_52W_LOW * PctAbove52wLow(info).den],
       [key |-> "9_price_within_25pct_of_52w_high",
        value |-> PctFrom52wHigh(info).num
                     <= MAX_PERCENT_FROM_52W_HIGH * PctFrom52wHigh(info).den] >>

\* lines 142-152: the criteria dict, in the order of its keys
Criteria(info, prices) ==
    << [key |-> "1_price_above_150sma",
        value |-> info.current_price > info.sma_150],
       [key |-> "2_price_above_200sma",
        value |-> info.current_price > info.sma_200],
       [key |-> "3_150sma_above_200sma",
        value |-> info.sma_150 > info.sma_200],
       [key |-> "4_200sma_trending_up",
        value |-> IsSmaTrendingUp(prices, MA_LONG, MIN_200_SMA_UPTREND_DAYS)],
       [key |-> "5_50sma_above_150sma",
        value |-> info.sma_50 > info.sma_150],
       [key |-> "6_50sma_above_200sma",
        value |-> info.sma_50 > info.sma_200],
       [key |-> "7_price_above_50sma",
        value |-> info.current_price > info.sma_50],
       [key |-> "8_price_30pct_above_52w_low",
        value |-> PctAbove52wLow(info).num
                     >= MIN_PERCENT_ABOVE_52W_LOW * PctAbove52wLow(info).den],
       [key |-> "9_price_within_25pct_of_52w_high",
        value |-> PctFrom52wHigh(info).num
                     <= MAX_PERCENT_FROM_52W_HIGH * PctFrom52wHigh(info).den] >>

\* the score counting the criteria up to the first one that fails
RECURSIVE ScoreLeading(_)
ScoreLeading(criteria) ==
    IF criteria = <<>> \/ ~Head(criteria).value THEN 0
    ELSE 1 + ScoreLeading(Tail(criteria))

\* line 155: sum(criteria.values())
RECURSIVE Score(_)
Score(criteria) ==
    IF criteria = <<>> THEN 0
    ELSE (IF Head(criteria).value THEN 1 ELSE 0) + Score(Tail(criteria))

\* line 156: all(criteria.values())
PassesAll(criteria) == \A i \in 1..Len(criteria) : criteria[i].value

\* lines 110-135: the warning check_trend_template logs when it returns None
Warning(info, hist) ==
    IF ~info.found THEN "could_not_fetch"
    ELSE IF ~hist.found \/ Len(hist.close) < MA_LONG THEN "insufficient_history"
    ELSE IF None \in {info.sma_50, info.sma_150, info.sma_200} THEN "missing_sma"
    ELSE "none"

\* check_trend_template, lines 110-180: None, or the result
CheckTrendTemplate(info, hist) ==
    IF Warning(info, hist) # "none" THEN NoResult
    ELSE LET criteria == Criteria(info, hist.close)
         IN  [none |-> FALSE, criteria |-> criteria, score |-> Score(criteria),
              passes_all |-> PassesAll(criteria)]

\* what scan_stocks sees of a result
OutcomeOf(result) == [found |-> ~result.none, score |-> result.score]

(* --------------------------- alert manager ----------------------------- *)
\* should_alert with the cooldown counted as over when it is just reached
ShouldAlertInclusive(history, symbol, t) ==
    \/ symbol \notin DOMAIN history
    \/ t - history[symbol].last_alert >= ALERT_COOLDOWN

\* should_alert, lines 70-78
ShouldAlert(history, symbol, t) ==
    \/ symbol \notin DOMAIN history
    \/ t - history[symbol].last_alert > ALERT_COOLDOWN

\* line 93: details or {}
StoredDetails(details) == IF details = "none" THEN "empty" ELSE details

\* record_alert that starts the count again with every call
RecordAlertNoCount(history, symbol, details, t) ==
    [s \in DOMAIN history \cup {symbol} |->
        IF s = symbol
        THEN [last_alert |-> t, alert_count |-> 1, details |-> StoredDetails(details)]
        ELSE history[s]]

\* record_alert, lines 88-97: the history it saves
RecordAlert(history, symbol, details, t) ==
    [s \in DOMAIN history \cup {symbol} |->
        IF s = symbol
        THEN [last_alert |-> t,
              alert_count |-> (IF symbol \in DOMAIN history
                               THEN history[symbol].alert_count ELSE 0) + 1,
              details |-> StoredDetails(details)]
        ELSE history[s]]

\* clear_old_alerts, lines 151-164: the history it saves and what it returns
ClearOldAlerts(history, days, t) ==
    LET cutoff == t - days
        kept == {s \in DOMAIN history : history[s].last_alert > cutoff}
        cleaned == [s \in kept |-> history[s]]
    IN  [history |-> cleaned,
         removed |-> Cardinality(DOMAIN history) - Cardinality(kept)]

\* line 141 with the order turned round: oldest first
RECURSIVE InsertOldestFirst(_, _)
InsertOldestFirst(sorted, e) ==
    IF sorted = <<>> THEN <<e>>
    ELSE IF Head(sorted).timestamp <= e.timestamp
         THEN <<Head(sorted)>> \o InsertOldestFirst(Tail(sorted), e)
         ELSE <<e>> \o sorted

RECURSIVE SortOldestFirst(_)
SortOldestFirst(recent) ==
    IF recent = <<>> THEN <<>>
    ELSE InsertOldestFirst(SortOldestFirst(SubSeq(recent, 1, Len(recent) - 1)),
                           recent[Len(recent)])

\* list.sort is stable, also with reverse=True: an entry goes behind the
\* entries whose timestamp is not smaller than its own
RECURSIVE InsertRecent(_, _)
InsertRecent(sorted, e) ==
    IF sorted = <<>> THEN <<e>>
    ELSE IF Head(sorted).timestamp >= e.timestamp
         THEN <<Head(sorted)>> \o InsertRecent(Tail(sorted), e)
         ELSE <<e>> \o sorted

\* line 141: recent.sort(key=timestamp, reverse=True)
RECURSIVE SortRecent(_)
SortRecent(recent) ==
    IF recent = <<>> THEN <<>>
    ELSE InsertRecent(SortRecent(SubSeq(recent, 1, Len(recent) - 1)),
                      recent[Len(recent)])

\* lines 133-138: the entries appended, in the order of the keys of the
\* history
RECURSIVE RecentEntries(_, _, _)
RecentEntries(history, keys, cutoff) ==
    IF keys = <<>> THEN <<>>
    ELSE LET symbol == Head(keys)
             data == history[symbol]
             rest == RecentEntries(history, Tail(keys), cutoff)
         IN  IF data.last_alert > cutoff
             THEN <<[symbol |-> symbol, timestamp |-> data.last_alert,
                     details |-> data.details]>> \o rest
             ELSE rest

\* get_recent_alerts, lines 127-142: what it returns
GetRecentAlerts(history, keys, hours, t) ==
    SortRecent(RecentEntries(history, keys, t - hours))

\* the keys of a dict after an assignment to dict[symbol]: a new key goes
\* to the end, a key it has keeps its place
KeysAfterSet(keys, symbol) ==
    IF \E i \in 1..Len(keys) : keys[i] = symbol THEN keys
    ELSE Append(keys, symbol)

(* ------------------------------ state ---------------------------------- *)
VARIABLES
    is_scanning,        \* the process-wide flag
    state_file,         \* scan_state.json: NoState or a checkpoint
    results_file,       \* scan_results.json
    pc,                 \* position of each coroutine
    typ,                \* its scan_type argument
    offset,             \* its offset
    found_count,        \* its found_count
    res,                \* results of the chunk not yet added
    evaluated,          \* history: per scan type, the indices evaluated since the
                        \* fresh start of its scan; kept while that scan runs
                        \* or its checkpoint is on disk
    stop_requested,     \* a stop was accepted during the active run
    last_oc,            \* history: what check_trend_template gave for each symbol
                        \* of the chunk scan_stocks has just returned from
    alert_history,      \* alert_history.json: symbol -> record
    history_keys,       \* the order of the keys in alert_history.json
    now,                \* datetime.now(), in clock ticks
    call,               \* the last call of an AlertManager method and its result
    calls,              \* history: per symbol, the record_alert calls since its
                        \* record was created
    health,             \* what the last /health request read
    evaluation,         \* the call of check_trend_template under way: what
                        \* the provider gave, the result and the warning logged
    run_scan,           \* the call of MinerviniAlertSystem.run_scan under way:
                        \* its position, the results left and its send_alerts
                        \* argument; history: per symbol the time of the
                        \* last alert sent and the number of alerts sent
    stamped             \* the checkpoint with its started_at: the file, the
                        \* state run_chunked_scan loaded at line 198, the
                        \* position, scan type and offset of the run;
                        \* history: whether the run started anew, and when

\* the state of the scan engine
scan_vars == <<is_scanning, state_file, results_file, pc, typ, offset,
               found_count, res, evaluated, stop_requested, last_oc>>

\* the state of the alert manager
alert_vars == <<alert_history, history_keys, now, call, calls>>

\* what the steps of the scan engine leave alone
aux == <<alert_vars, health, evaluation, run_scan, stamped>>

vars == <<scan_vars, alert_vars, health, evaluation, run_scan, stamped>>

locals == <<typ, offset, found_count, res>>
files == <<state_file, results_file>>

\* positions where a coroutine is suspended (an await, or a task not yet run)
AwaitPcs == {"resume_reply", "sched_notify", "pending", "triggered", "start_msg", "notify",
             "stop_msg", "progress_msg", "sleep", "complete_msg"}
\* positions of the synchronous code of run_chunked_scan
SyncPcs == {"loop", "saving", "scan", "add", "advance", "clear"}
\* positions between the gate and the return of run_chunked_scan
RunPcs == {"start_msg", "loop", "saving", "scan", "add", "notify", "advance", "stop_msg",
           "progress_msg", "sleep", "clear", "complete_msg"}

\* positions inside the while loop (lines 226-295)
LoopPcs == {"scan", "add", "notify", "advance", "stop_msg", "progress_msg", "sleep"}

\* positions from which the next step of a coroutine is the gate of
\* run_chunked_scan: a task that was created and has not run yet
\* ("triggered": the one of a trigger_scan request that is followed), and
\* scheduled_scan_job awaiting its notification, which then calls
\* run_chunked_scan itself (line 348)
GatePcs == {"pending", "triggered", "sched_notify"}

\* no coroutine is inside synchronous code: the event loop can run a handler
LoopFree == \A t \in Tasks : pc[t] \notin SyncPcs

Active(t) == pc[t] \in RunPcs

\* t is inside the while loop of run_chunked_scan
InChunkLoop(t) == pc[t] \in LoopPcs

Init ==
    /\ is_scanning = FALSE
    /\ state_file = NoState
    /\ results_file = EmptyResults("none")
    /\ pc = [t \in Tasks |-> "none"]
    /\ typ = [t \in Tasks |-> "fullscan"]
    /\ offset = [t \in Tasks |-> 0]
    /\ found_count = [t \in Tasks |-> 0]
    /\ res = [t \in Tasks |-> <<>>]
    /\ evaluated = [s \in ChunkedTypes |-> {}]
    /\ stop_requested = FALSE
    /\ last_oc = NoOutcomes
    /\ alert_history = NoHistory
    /\ now = 0
    /\ call = NoCall
    /\ calls = [s \in AlertSymbols |-> 0]
    /\ history_keys = <<>>
    /\ evaluation = NoEvaluation
    /\ run_scan = NoRunScan
    /\ stamped = NoStamped
    /\ health = NoHealth

\* the coroutine t is over: its frame is gone
Drop(t) ==
    /\ pc' = [pc EXCEPT ![t] = "none"]
    /\ typ' = [typ EXCEPT ![t] = "fullscan"]
    /\ offset' = [offset EXCEPT ![t] = 0]
    /\ found_count' = [found_count EXCEPT ![t] = 0]
    /\ res' = [res EXCEPT ![t] = <<>>]

\* asyncio.create_task(run_chunked_scan(chat_id, scan_type)) in a free slot
Spawn(t, scan_type, at) ==
    /\ pc[t] = "none"
    /\ pc' = [pc EXCEPT ![t] = at]
    /\ typ' = [typ EXCEPT ![t] = scan_type]
    /\ UNCHANGED <<offset, found_count, res>>

\* return from an accepted run_chunked_scan: finally: is_scanning = False
\* a return that leaves the flag as it is
ReturnFlagKept(t) ==
    /\ Drop(t)
    /\ is_scanning' = is_scanning
    /\ stop_requested' = FALSE

Return(t) ==
    /\ Drop(t)
    /\ is_scanning' = FALSE
    /\ stop_requested' = FALSE

(* ------------------------ run_chunked_scan ----------------------------- *)
\* lines 182-184: the call finds is_scanning set and returns False
GateReject(t) ==
    /\ pc[t] \in GatePcs
    /\ LoopFree
    /\ ~GateOpen(is_scanning)
    /\ Drop(t)
    /\ UNCHANGED <<is_scanning, files, evaluated, stop_requested>>
    /\ UNCHANGED aux
    /\ UNCHANGED last_oc

\* lines 185-204, 223: the call is let in and continues the checkpoint
GateResume(t) ==
    /\ pc[t] \in GatePcs
    /\ LoopFree
    /\ GateOpen(is_scanning)
    /\ ShouldResume(state_file, typ[t], TotalStocks(typ[t]))
    /\ is_scanning' = TRUE
    /\ offset' = [offset EXCEPT ![t] = state_file.offset]
    /\ found_count' = [found_count EXCEPT ![t] = Len(results_file.stocks)]
    /\ pc' = [pc EXCEPT ![t] = "loop"]
    /\ stop_requested' = FALSE
    /\ UNCHANGED <<files, typ, res, evaluated>>
    /\ UNCHANGED aux
    /\ UNCHANGED last_oc

\* lines 185-209: the call is let in and starts a new scan; it then awaits
\* the sending of the start message
GateFresh(t) ==
    /\ pc[t] \in GatePcs
    /\ LoopFree
    /\ GateOpen(is_scanning)
    /\ ~ShouldResume(state_file, typ[t], TotalStocks(typ[t]))
    /\ is_scanning' = TRUE
    /\ offset' = [offset EXCEPT ![t] = 0]
    /\ results_file' = EmptyResults(typ[t])
    /\ evaluated' = [evaluated EXCEPT ![typ[t]] = {}]
    /\ pc' = [pc EXCEPT ![t] = "start_msg"]
    /\ stop_requested' = FALSE
    /\ UNCHANGED <<state_file, typ, found_count, res>>
    /\ UNCHANGED aux
    /\ UNCHANGED last_oc

\* lines 212-223: the start message was sent
StartMsg(t) ==
    /\ pc[t] = "start_msg"
    /\ LoopFree
    /\ found_count' = [found_count EXCEPT ![t] = Len(results_file.stocks)]
    /\ pc' = [pc EXCEPT ![t] = "loop"]
    /\ UNCHANGED <<is_scanning, files, typ, offset, res, evaluated,
                   stop_requested>>
    /\ UNCHANGED aux
    /\ UNCHANGED last_oc

\* lines 226-238: another chunk: the checkpoint is written
LoopSave(t) ==
    /\ pc[t] = "loop"
    /\ offset[t] < TotalStocks(typ[t])
    /\ state_file' = Checkpoint(typ[t], offset[t], TotalStocks(typ[t]), ChatId)
    /\ evaluated' = [s \in ChunkedTypes |-> IF s = typ[t] THEN evaluated[s] ELSE {}]
    /\ pc' = [pc EXCEPT ![t] = "scan"]
    /\ UNCHANGED <<is_scanning, results_file, locals, stop_requested>>
    /\ UNCHANGED aux
    /\ UNCHANGED last_oc

\* line 242: screener.scan_stocks(chunk, min_score=9)
Scan(t) ==
    /\ pc[t] = "scan"
    /\ LET chunk == Chunk(typ[t], offset[t])
       IN  \E oc \in [Range(chunk) -> Outcomes] :
             \E r \in ScanStocks(chunk, MIN_SCORE, oc) :
               /\ res' = [res EXCEPT ![t] = r]
               /\ last_oc' = oc
               /\ pc' = [pc EXCEPT ![t] = IF r = <<>> THEN "advance" ELSE "add"]
    /\ evaluated' = [evaluated EXCEPT
                        ![typ[t]] = @ \cup ChunkIndices(typ[t], offset[t])]
    /\ UNCHANGED <<is_scanning, files, typ, offset, found_count,
                   stop_requested>>
    /\ UNCHANGED aux

\* lines 244-256: the next result is stored, then its message is awaited
Add(t) ==
    /\ pc[t] = "add"
    /\ results_file' = AddToScanResults(results_file, StockData(Head(res[t])), typ[t])
    /\ found_count' = [found_count EXCEPT ![t] = @ + 1]
    /\ pc' = [pc EXCEPT ![t] = "notify"]
    /\ UNCHANGED <<is_scanning, state_file, typ, offset, res,
                   evaluated, stop_requested>>
    /\ UNCHANGED aux
    /\ last_oc' = NoOutcomes

\* lines 256-262: the message of a find was sent
NotifyOk(t) ==
    /\ pc[t] = "notify"
    /\ LoopFree
    /\ res' = [res EXCEPT ![t] = Tail(@)]
    /\ pc' = [pc EXCEPT ![t] = IF Tail(res[t]) = <<>> THEN "advance" ELSE "add"]
    /\ UNCHANGED <<is_scanning, files, typ, offset, found_count,
                   evaluated, stop_requested>>
    /\ UNCHANGED aux
    /\ UNCHANGED last_oc

\* lines 264-265: the send raised; the except of the chunk swallows it and
\* the rest of the chunk's results is dropped
NotifyFail(t) ==
    /\ pc[t] = "notify"
    /\ LoopFree
    /\ res' = [res EXCEPT ![t] = <<>>]
    /\ pc' = [pc EXCEPT ![t] = "advance"]
    /\ UNCHANGED <<is_scanning, files, typ, offset, found_count,
                   evaluated, stop_requested>>
    /\ UNCHANGED aux
    /\ UNCHANGED last_oc

\* lines 267-284: the offset moves on and the stopped flag is looked at
Advance(t) ==
    /\ pc[t] = "advance"
    /\ offset' = [offset EXCEPT ![t] = AdvanceOffset(@)]
    /\ pc' = [pc EXCEPT ![t] =
                IF Stopped(state_file) THEN "stop_msg"
                ELSE IF ChunkNum(offset[t]) % ProgressEvery = 0 THEN "progress_msg"
                ELSE "sleep"]
    /\ UNCHANGED <<is_scanning, files, typ, found_count, res, evaluated,
                   stop_requested>>
    /\ UNCHANGED aux
    /\ last_oc' = NoOutcomes

\* lines 273-281: the stop message was sent (or raised): the run returns
StopMsg(t) ==
    /\ pc[t] = "stop_msg"
    /\ LoopFree
    /\ Return(t)
    /\ UNCHANGED <<files, evaluated>>
    /\ UNCHANGED aux
    /\ UNCHANGED last_oc

\* lines 286-292: the progress message was sent
ProgressMsg(t) ==
    /\ pc[t] = "progress_msg"
    /\ LoopFree
    /\ pc' = [pc EXCEPT ![t] = "sleep"]
    /\ UNCHANGED <<is_scanning, files, locals, evaluated, stop_requested>>
    /\ UNCHANGED aux
    /\ UNCHANGED last_oc

\* line 295: the sleep between two chunks is over
Sleep(t) ==
    /\ pc[t] = "sleep"
    /\ LoopFree
    /\ pc' = [pc EXCEPT ![t] = "loop"]
    /\ UNCHANGED <<is_scanning, files, locals, evaluated, stop_requested>>
    /\ UNCHANGED aux
    /\ UNCHANGED last_oc

\* lines 297-301: the loop is over: completed_at and total_scanned are written
Complete(t) ==
    /\ pc[t] = "loop"
    /\ offset[t] >= TotalStocks(typ[t])
    /\ results_file' = [results_file EXCEPT !.completed_at = TRUE,
                                            !.total_scanned = TotalStocks(typ[t])]
    /\ pc' = [pc EXCEPT ![t] = "clear"]
    /\ UNCHANGED <<is_scanning, state_file, locals, evaluated,
                   stop_requested>>
    /\ UNCHANGED aux
    /\ UNCHANGED last_oc

\* line 302: clear_scan_state(), then the completion message is awaited
Clear(t) ==
    /\ pc[t] = "clear"
    /\ state_file' = NoState
    /\ pc' = [pc EXCEPT ![t] = "complete_msg"]
    /\ UNCHANGED <<is_scanning, results_file, locals,
                   evaluated, stop_requested>>
    /\ UNCHANGED aux
    /\ UNCHANGED last_oc

\* lines 305-314: the completion message was sent (or raised): the run returns
CompleteMsg(t) ==
    /\ pc[t] = "complete_msg"
    /\ LoopFree
    /\ Return(t)
    /\ evaluated' = [evaluated EXCEPT ![typ[t]] = {}]
    /\ UNCHANGED files
    /\ UNCHANGED aux
    /\ UNCHANGED last_oc

\* lines 316-320: the start or the progress message raised: the run is over
SendAborts(t) ==
    /\ pc[t] \in {"start_msg", "progress_msg"}
    /\ LoopFree
    /\ Return(t)
    /\ UNCHANGED <<files, evaluated>>
    /\ UNCHANGED aux
    /\ UNCHANGED last_oc

(* --------------------------- handlers ---------------------------------- *)
\* full_scan and scan_all_nse, lines 649-661 and 668-680: the answer
StartAnswer(flag) == IF flag THEN "AlreadyRunning" ELSE "Scheduled"

\* stop_command, lines 583-589: the answer
StopAnswer(state) == IF state = NoState THEN "NoScan" ELSE "Stopping"

\* resume_command, lines 601-616: the answer
ResumeAnswer(state) ==
    IF state = NoState THEN "NoCheckpoint"
    ELSE IF ~Stopped(state) THEN "NotStopped"
    ELSE "Resuming"

\* progress_command, lines 545-570: the status reported
ProgressAnswer(state, results) ==
    IF state = NoState
    THEN IF results.completed_at THEN "Complete" ELSE "NoScan"
    ELSE IF Stopped(state) THEN "Paused" ELSE "Running"

\* trigger_scan without the test of the stored chat_id
TriggerAnswerAnyState(scan_type, state) ==
    IF scan_type \notin ChunkedTypes THEN "InvalidType" ELSE "scan_started"

\* trigger_scan, lines 472-485: the answer
TriggerAnswer(scan_type, state) ==
    IF scan_type \notin ChunkedTypes THEN "InvalidType"
    ELSE IF state = NoState THEN "NoChatId"
    ELSE "scan_started"

\* full_scan (scan_type = "fullscan") and scan_all_nse ("scanall")
StartCommand(scan_type) ==
    /\ LoopFree
    /\ IF StartAnswer(is_scanning) = "Scheduled"
       THEN \E t \in Tasks : Spawn(t, scan_type, "pending")
       ELSE UNCHANGED <<pc, locals>>
    /\ UNCHANGED <<is_scanning, files, evaluated, stop_requested>>
    /\ UNCHANGED aux
    /\ UNCHANGED last_oc

FullScan == StartCommand("fullscan")

ScanAllNse == StartCommand("scanall")

\* stop_command
StopCommand ==
    /\ LoopFree
    /\ IF StopAnswer(state_file) = "Stopping"
       THEN /\ state_file' = [state_file EXCEPT !.stopped = TRUE]
            /\ stop_requested' = (stop_requested \/ \E t \in Tasks : InChunkLoop(t))
       ELSE UNCHANGED <<state_file, stop_requested>>
    /\ UNCHANGED <<is_scanning, results_file, pc, locals, evaluated>>
    /\ UNCHANGED aux
    /\ UNCHANGED last_oc

\* resume_command without the test for a missing checkpoint: the scan type
\* falls back to the default of state.get('scan_type', 'fullscan')
ResumeCommandNoCheck ==
    /\ LoopFree
    /\ IF ResumeAnswer(state_file) = "NotStopped"
       THEN UNCHANGED <<state_file, pc, locals, stop_requested>>
       ELSE /\ state_file' = IF state_file = NoState THEN state_file
                             ELSE [state_file EXCEPT !.stopped = FALSE]
            /\ \E t \in Tasks :
                  Spawn(t, IF state_file = NoState THEN "fullscan"
                           ELSE state_file.scan_type, "resume_reply")
            /\ stop_requested' = FALSE
    /\ UNCHANGED <<is_scanning, results_file, evaluated>>
    /\ UNCHANGED aux
    /\ UNCHANGED last_oc

\* resume_command, lines 601-620: up to the await of its reply
ResumeCommand ==
    /\ LoopFree
    /\ IF ResumeAnswer(state_file) = "Resuming"
       THEN /\ state_file' = [state_file EXCEPT !.stopped = FALSE]
            /\ \E t \in Tasks : Spawn(t, state_file.scan_type, "resume_reply")
            /\ stop_requested' = FALSE
       ELSE UNCHANGED <<state_file, pc, locals, stop_requested>>
    /\ UNCHANGED <<is_scanning, results_file, evaluated>>
    /\ UNCHANGED aux
    /\ UNCHANGED last_oc

\* resume_command, line 623: the reply was sent, the task is created
ResumeReply(t) ==
    /\ pc[t] = "resume_reply"
    /\ LoopFree
    /\ pc' = [pc EXCEPT ![t] = "pending"]
    /\ UNCHANGED <<is_scanning, files, locals, evaluated, stop_requested>>
    /\ UNCHANGED aux
    /\ UNCHANGED last_oc

\* the send awaited by resume_command or scheduled_scan_job raised
HandlerSendFails(t) ==
    /\ pc[t] \in {"resume_reply", "sched_notify"}
    /\ LoopFree
    /\ Drop(t)
    /\ UNCHANGED <<is_scanning, files, evaluated, stop_requested>>
    /\ UNCHANGED aux
    /\ UNCHANGED last_oc

\* quick_scan, from its scan_stocks call on (synchronous); nothing is
\* stored when no stock qualifies
QuickScan ==
    /\ LoopFree
    /\ LET stocks == SubSeq(AllStocks("fullscan"), 1, Min(QuickSize, NumFull))
       IN  \E oc \in [Range(stocks) -> Outcomes] :
             \E r \in ScanStocks(stocks, MIN_SCORE, oc) :
               /\ r # <<>>
               /\ results_file' = [stocks |-> [i \in 1..Len(r) |-> QuickData(r[i])],
                                   scan_type |-> "quick",
                                   completed_at |-> TRUE,
                                   total_scanned |-> QuickSize]
    /\ UNCHANGED <<is_scanning, state_file, pc, locals, evaluated, stop_requested>>
    /\ UNCHANGED aux
    /\ UNCHANGED last_oc

\* trigger_scan (a Flask thread: it does not wait for the event loop)
TriggerScanAt(scan_type, at) ==
    /\ IF TriggerAnswer(scan_type, state_file) = "scan_started"
       THEN \E t \in Tasks : Spawn(t, scan_type, at)
       ELSE UNCHANGED <<pc, locals>>
    /\ UNCHANGED <<is_scanning, files, evaluated, stop_requested>>
    /\ UNCHANGED aux
    /\ UNCHANGED last_oc

TriggerScan(scan_type) == TriggerScanAt(scan_type, "pending")

\* a trigger_scan request that answers scan_started and whose coroutine is
\* followed to the gate
TriggerScanFollowed(scan_type) ==
    /\ TriggerAnswer(scan_type, state_file) = "scan_started"
    /\ TriggerScanAt(scan_type, "triggered")

\* scheduled_scan_job, lines 329-345, as the scheduler runs it when the
\* daily scan is enabled for a chat: up to the await of its notification
ScheduledScanJob ==
    /\ LoopFree
    /\ \E t \in Tasks : Spawn(t, "scanall", "sched_notify")
    /\ UNCHANGED <<is_scanning, files, evaluated, stop_requested>>
    /\ UNCHANGED aux
    /\ UNCHANGED last_oc

\* the process dies and is started again: the files stay, the memory is new
Crash ==
    /\ is_scanning' = FALSE
    /\ pc' = [t \in Tasks |-> "none"]
    /\ typ' = [t \in Tasks |-> "fullscan"]
    /\ offset' = [t \in Tasks |-> 0]
    /\ found_count' = [t \in Tasks |-> 0]
    /\ res' = [t \in Tasks |-> <<>>]
    /\ stop_requested' = FALSE
    /\ evaluated' = [s \in ChunkedTypes |->
                        IF state_file # NoState /\ state_file.scan_type = s
                        THEN evaluated[s] ELSE {}]
    /\ UNCHANGED files
    /\ UNCHANGED aux
    /\ last_oc' = NoOutcomes

Next ==
    \/ \E t \in Tasks : GateReject(t)
    \/ \E t \in Tasks : GateResume(t)
    \/ \E t \in Tasks : GateFresh(t)
    \/ \E t \in Tasks : StartMsg(t)
    \/ \E t \in Tasks : LoopSave(t)
    \/ \E t \in Tasks : Scan(t)
    \/ \E t \in Tasks : Add(t)
    \/ \E t \in Tasks : NotifyOk(t)
    \/ \E t \in Tasks : NotifyFail(t)
    \/ \E t \in Tasks : Advance(t)
    \/ \E t \in Tasks : StopMsg(t)
    \/ \E t \in Tasks : ProgressMsg(t)
    \/ \E t \in Tasks : Sleep(t)
    \/ \E t \in Tasks : Complete(t)
    \/ \E t \in Tasks : Clear(t)
    \/ \E t \in Tasks : CompleteMsg(t)
    \/ \E t \in Tasks : SendAborts(t)
    \/ FullScan
    \/ ScanAllNse
    \/ StopCommand
    \/ ResumeCommand
    \/ \E t \in Tasks : ResumeReply(t)
    \/ \E t \in Tasks : HandlerSendFails(t)
    \/ QuickScan
    \/ \E scan_type \in ChunkedTypes \cup {"quick"} : TriggerScan(scan_type)
    \/ ScheduledScanJob
    \/ Crash

Spec == Init /\ [][Next]_vars

\* the program while nobody asks for /scan
NextChunked ==
    \/ \E t \in Tasks : GateReject(t)
    \/ \E t \in Tasks : GateResume(t)
    \/ \E t \in Tasks : GateFresh(t)
    \/ \E t \in Tasks : StartMsg(t)
    \/ \E t \in Tasks : LoopSave(t)
    \/ \E t \in Tasks : Scan(t)
    \/ \E t \in Tasks : Add(t)
    \/ \E t \in Tasks : NotifyOk(t)
    \/ \E t \in Tasks : NotifyFail(t)
    \/ \E t \in Tasks : Advance(t)
    \/ \E t \in Tasks : StopMsg(t)
    \/ \E t \in Tasks : ProgressMsg(t)
    \/ \E t \in Tasks : Sleep(t)
    \/ \E t \in Tasks : Complete(t)
    \/ \E t \in Tasks : Clear(t)
    \/ \E t \in Tasks : CompleteMsg(t)
    \/ \E t \in Tasks : SendAborts(t)
    \/ FullScan
    \/ ScanAllNse
    \/ StopCommand
    \/ ResumeCommand
    \/ \E t \in Tasks : ResumeReply(t)
    \/ \E t \in Tasks : HandlerSendFails(t)
    \/ \E scan_type \in ChunkedTypes \cup {"quick"} : TriggerScan(scan_type)
    \/ ScheduledScanJob
    \/ Crash

SpecChunked == Init /\ [][NextChunked]_vars

(* ----------------------- storage write failures ------------------------ *)
\* lines 226-238 when the open or the json.dump of save_scan_state raises:
\* the except of lines 106-107 logs it and the loop goes on
LoopSaveFails(t) ==
    /\ pc[t] = "loop"
    /\ offset[t] < TotalStocks(typ[t])
    /\ pc' = [pc EXCEPT ![t] = "scan"]
    /\ UNCHANGED <<is_scanning, files, locals, evaluated, stop_requested, last_oc>>
    /\ UNCHANGED aux

\* lines 244-256 when save_scan_results raises inside add_to_scan_results:
\* the except of lines 135-136 logs it, the find is counted and announced
AddFails(t) ==
    /\ pc[t] = "add"
    /\ found_count' = [found_count EXCEPT ![t] = @ + 1]
    /\ pc' = [pc EXCEPT ![t] = "notify"]
    /\ last_oc' = NoOutcomes
    /\ UNCHANGED <<is_scanning, files, typ, offset, res, evaluated, stop_requested>>
    /\ UNCHANGED aux

NextWriteFail ==
    \/ Next
    \/ \E t \in Tasks : LoopSaveFails(t)
    \/ \E t \in Tasks : AddFails(t)

\* the program on a disk whose writes can fail
SpecWriteFail == Init /\ [][NextWriteFail]_vars

(* ------------------------- writes in two steps ------------------------- *)
\* save_scan_state, line 104: open(SCAN_STATE_FILE, 'w') has emptied the
\* file and json.dump has not written yet; load_scan_state fails on such a
\* file in json.load and returns None
SaveStateOpen(t) ==
    /\ pc[t] = "loop"
    /\ offset[t] < TotalStocks(typ[t])
    /\ state_file' = NoState
    /\ pc' = [pc EXCEPT ![t] = "saving"]
    /\ UNCHANGED <<is_scanning, results_file, locals, evaluated, stop_requested,
                   last_oc>>
    /\ UNCHANGED aux

\* save_scan_state, line 105: json.dump has written the checkpoint
SaveStateDump(t) ==
    /\ pc[t] = "saving"
    /\ state_file' = Checkpoint(typ[t], offset[t], TotalStocks(typ[t]), ChatId)
    /\ evaluated' = [s \in ChunkedTypes |-> IF s = typ[t] THEN evaluated[s] ELSE {}]
    /\ pc' = [pc EXCEPT ![t] = "scan"]
    /\ UNCHANGED <<is_scanning, results_file, locals, stop_requested, last_oc>>
    /\ UNCHANGED aux

\* health (a Flask thread: it does not wait for the event loop); read_error
\* tells that load_scan_state found the file half written
Health ==
    /\ health' = [scanning |-> is_scanning,
                  scan_progress |-> IF state_file = NoState THEN 0
                                    ELSE state_file.offset,
                  read_error |-> \E t \in Tasks : pc[t] = "saving"]
    /\ UNCHANGED <<scan_vars, alert_vars, evaluation, run_scan, stamped>>

NextTorn ==
    \/ Next
    \/ \E t \in Tasks : SaveStateOpen(t)
    \/ \E t \in Tasks : SaveStateDump(t)
    \/ Health

\* the program with the two steps of a checkpoint write and a reader thread
SpecTorn == Init /\ [][NextTorn]_vars

(* ----------------------- alert manager, called ------------------------- *)
\* time passes
Tick ==
    /\ now < MaxTime
    /\ now' = now + 1
    /\ UNCHANGED <<alert_history, history_keys, call, calls, scan_vars, health, evaluation, run_scan, stamped>>

\* a call of should_alert(symbol)
ShouldAlertCall(symbol) ==
    /\ call' = [NoCall EXCEPT !.op = "should_alert", !.symbol = symbol,
                              !.answer = ShouldAlert(alert_history, symbol, now)]
    /\ UNCHANGED <<alert_history, history_keys, now, calls, scan_vars, health, evaluation, run_scan, stamped>>

\* a call of record_alert(symbol, details)
RecordAlertCall(symbol, details) ==
    /\ symbol \in DOMAIN alert_history => alert_history[symbol].alert_count < MaxCount
    /\ alert_history' = RecordAlert(alert_history, symbol, details, now)
    /\ history_keys' = KeysAfterSet(history_keys, symbol)
    /\ call' = [NoCall EXCEPT !.op = "record_alert", !.symbol = symbol,
                              !.details = details]
    /\ calls' = [calls EXCEPT ![symbol] = @ + 1]
    /\ UNCHANGED <<now, scan_vars, health, evaluation, run_scan, stamped>>

\* a call of clear_old_alerts(days)
ClearOldAlertsCall(days) ==
    LET out == ClearOldAlerts(alert_history, days, now)
    IN  /\ alert_history' = out.history
        /\ history_keys' = SelectSeq(history_keys,
                                     LAMBDA s : s \in DOMAIN out.history)
        /\ call' = [NoCall EXCEPT !.op = "clear_old_alerts", !.days = days,
                                  !.removed = out.removed]
        /\ calls' = [s \in AlertSymbols |->
                        IF s \in DOMAIN out.history THEN calls[s] ELSE 0]
        /\ UNCHANGED <<now, scan_vars, health, evaluation, run_scan, stamped>>

\* a call of get_recent_alerts(hours)
GetRecentAlertsCall(hours) ==
    /\ call' = [NoCall EXCEPT !.op = "get_recent_alerts", !.hours = hours,
                              !.recent = GetRecentAlerts(alert_history,
                                                         history_keys, hours, now)]
    /\ UNCHANGED <<alert_history, history_keys, now, calls, scan_vars, health, evaluation, run_scan, stamped>>

NextAlerts ==
    \/ Tick
    \/ \E hours \in 0..MaxHours : GetRecentAlertsCall(hours)
    \/ \E symbol \in AlertSymbols : ShouldAlertCall(symbol)
    \/ \E symbol \in AlertSymbols : \E details \in DetailsArgs :
          RecordAlertCall(symbol, details)
    \/ \E days \in 0..MaxDays : ClearOldAlertsCall(days)

\* the alert manager under any sequence of calls
SpecAlerts == Init /\ [][NextAlerts]_vars

NextTrigger ==
    \/ Next
    \/ \E scan_type \in ChunkedTypes : TriggerScanFollowed(scan_type)

\* the program with the coroutine of an HTTP trigger told from the others
SpecTrigger == Init /\ [][NextTrigger]_vars

(* ------------------- runs without stop or failure --------------------- *)
\* a step of the chunk loop of t in which nothing fails
ChunkLoop(t) ==
    \/ StartMsg(t)
    \/ LoopSave(t)
    \/ Scan(t)
    \/ Add(t)
    \/ NotifyOk(t)
    \/ Advance(t)
    \/ ProgressMsg(t)
    \/ Sleep(t)
    \/ Complete(t)
    \/ Clear(t)
    \/ CompleteMsg(t)

NextLive ==
    \/ \E t \in Tasks : GateReject(t)
    \/ \E t \in Tasks : GateFresh(t)
    \/ \E t \in Tasks : ChunkLoop(t)
    \/ FullScan
    \/ ScanAllNse
    \/ QuickScan
    \/ \E scan_type \in ChunkedTypes \cup {"quick"} : TriggerScan(scan_type)
    \/ ScheduledScanJob

\* the program while nobody asks for a stop, no send or write fails and the
\* process is not killed; the event loop goes on with a coroutine that can
\* go on
SpecLive ==
    Init /\ [][NextLive]_vars /\ \A t \in Tasks : WF_vars(ChunkLoop(t))

(* ------------------------ main.py: run_scan ---------------------------- *)
\* the lists of qualifying symbols scan_stocks can return to run_scan; the
\* stock list is a file the user edits and may name a symbol twice
ScanResults ==
    UNION {[1..n -> AlertSymbols] : n \in 0..Cardinality(AlertSymbols)}

\* run_scan recording an alert whether or not it was sent
AfterSendAlwaysRecord(ok) == "record"

\* main.py lines 82-87: where run_scan goes when send_alert has returned
AfterSend(ok) == IF ok THEN "record" ELSE "check"

\* main.py lines 70, 76: scan_stocks has returned and the loop begins
RunScanStart ==
    /\ run_scan.pc = "idle"
    /\ \E results \in ScanResults : \E send_alerts \in BOOLEAN :
          run_scan' = [run_scan EXCEPT !.pc = "check", !.results = results,
                                       !.send_alerts = send_alerts]
    /\ UNCHANGED <<scan_vars, alert_vars, health, evaluation, stamped>>

\* main.py lines 76-80: the next result: the alert gate is asked
RunScanCheck ==
    /\ run_scan.pc = "check"
    /\ run_scan.results # <<>>
    /\ run_scan' =
          IF run_scan.send_alerts
                /\ ShouldAlert(alert_history, Head(run_scan.results), now)
          THEN [run_scan EXCEPT !.pc = "send"]
          ELSE [run_scan EXCEPT !.results = Tail(@)]
    /\ UNCHANGED <<scan_vars, alert_vars, health, evaluation, stamped>>

\* main.py line 82: send_alert returns True (a chat got the message) or
\* False
RunScanSend ==
    /\ run_scan.pc = "send"
    /\ \E ok \in BOOLEAN :
          LET symbol == Head(run_scan.results)
          IN  run_scan' =
                [run_scan EXCEPT
                   !.pc = AfterSend(ok),
                   !.results = IF AfterSend(ok) = "record" THEN @ ELSE Tail(@),
                   !.last_sent = IF ok THEN [@ EXCEPT ![symbol] = now] ELSE @,
                   !.sends = IF ok THEN [@ EXCEPT ![symbol] = @ + 1] ELSE @]
    /\ UNCHANGED <<scan_vars, alert_vars, health, evaluation, stamped>>

\* main.py line 83: record_alert(result.symbol, result_dict)
RunScanRecord ==
    /\ run_scan.pc = "record"
    /\ LET symbol == Head(run_scan.results)
       IN  /\ alert_history' = RecordAlert(alert_history, symbol, "dict", now)
           /\ history_keys' = KeysAfterSet(history_keys, symbol)
           /\ calls' = [calls EXCEPT ![symbol] = @ + 1]
    /\ run_scan' = [run_scan EXCEPT !.pc = "check", !.results = Tail(@)]
    /\ UNCHANGED <<now, call, scan_vars, health, evaluation, stamped>>

\* main.py lines 89-98: the loop is over; the summary is sent and run_scan
\* returns
RunScanReturn ==
    /\ run_scan.pc = "check"
    /\ run_scan.results = <<>>
    /\ run_scan' = [run_scan EXCEPT !.pc = "idle"]
    /\ UNCHANGED <<scan_vars, alert_vars, health, evaluation, stamped>>

NextRunScan ==
    \/ Tick
    \/ RunScanStart
    \/ RunScanCheck
    \/ RunScanSend
    \/ RunScanRecord
    \/ RunScanReturn

\* main.py: the scheduler calls run_scan again and again while time passes
SpecRunScan == Init /\ [][NextRunScan]_vars

(* ------------------- the checkpoint's started_at ----------------------- *)
\* line 236: state.get('started_at', now) if state else now, with the state
\* loaded at line 198
StartedAt(state, time) ==
    IF state # NoState THEN state.started_at ELSE time

\* lines 232-238 with the started_at key
StampedCheckpoint(scan_type, off, state, time) ==
    [scan_type |-> scan_type, offset |-> off, total |-> TotalStocks(scan_type),
     chat_id |-> ChatId, stopped |-> FALSE,
     started_at |-> StartedAt(state, time)]

\* lines 182-221: a call of run_chunked_scan(chat_id, scan_type) is let in,
\* loads the checkpoint and resumes it or starts anew
ChunkedStart(scan_type) ==
    /\ stamped.pc \in {"idle", "pending"}
    /\ stamped.pc = "pending" => scan_type = stamped.scan_type
    /\ LET state == stamped.file
           resume == ShouldResume(state, scan_type, TotalStocks(scan_type))
       IN  stamped' = [stamped EXCEPT
                         !.pc = "loop",
                         !.scan_type = scan_type,
                         !.state = state,
                         !.offset = IF resume THEN state.offset ELSE 0,
                         !.fresh = ~resume,
                         !.began = IF resume THEN @ ELSE now]
    /\ UNCHANGED <<scan_vars, alert_vars, health, evaluation, run_scan>>

\* lines 226-238: the checkpoint is written before the chunk
ChunkedSave ==
    /\ stamped.pc = "loop"
    /\ stamped.offset < TotalStocks(stamped.scan_type)
    /\ stamped' = [stamped EXCEPT
                      !.pc = "chunk",
                      !.file = StampedCheckpoint(stamped.scan_type, stamped.offset,
                                                 stamped.state, now)]
    /\ UNCHANGED <<scan_vars, alert_vars, health, evaluation, run_scan>>

\* lines 241-295: the chunk is scanned, the offset moves on and the run
\* returns when it reads the stopped flag
ChunkedAdvance ==
    /\ stamped.pc = "chunk"
    /\ stamped' = [stamped EXCEPT
                      !.offset = AdvanceOffset(@),
                      !.pc = IF Stopped(stamped.file) THEN "idle" ELSE "loop"]
    /\ UNCHANGED <<scan_vars, alert_vars, health, evaluation, run_scan>>

\* lines 297-302, 314: the loop is over and the checkpoint is removed
ChunkedComplete ==
    /\ stamped.pc = "loop"
    /\ stamped.offset >= TotalStocks(stamped.scan_type)
    /\ stamped' = [stamped EXCEPT !.pc = "idle", !.file = NoState]
    /\ UNCHANGED <<scan_vars, alert_vars, health, evaluation, run_scan>>

\* lines 316-320: a send raises, or the process is killed, and the run is
\* over with its checkpoint left on disk
ChunkedAbort ==
    /\ stamped.pc \in {"loop", "chunk"}
    /\ stamped' = [stamped EXCEPT !.pc = "idle"]
    /\ UNCHANGED <<scan_vars, alert_vars, health, evaluation, run_scan>>

\* stop_command, lines 583-589: the checkpoint gets the stopped flag
StopStamped ==
    /\ stamped.file # NoState
    /\ ~Stopped(stamped.file)
    /\ stamped' = [stamped EXCEPT !.file = [@ EXCEPT !.stopped = TRUE]]
    /\ UNCHANGED <<scan_vars, alert_vars, health, evaluation, run_scan>>

\* resume_command, lines 601-624: the stopped flag is taken back and a task
\* is created for the checkpoint's scan type
ResumeStamped ==
    /\ stamped.pc = "idle"
    /\ Stopped(stamped.file)
    /\ stamped' = [stamped EXCEPT
                      !.file = [@ EXCEPT !.stopped = FALSE],
                      !.pc = "pending",
                      !.scan_type = stamped.file.scan_type]
    /\ UNCHANGED <<scan_vars, alert_vars, health, evaluation, run_scan>>

NextStamped ==
    \/ Tick
    \/ \E scan_type \in ChunkedTypes : ChunkedStart(scan_type)
    \/ ChunkedSave
    \/ ChunkedAdvance
    \/ ChunkedComplete
    \/ ChunkedAbort
    \/ StopStamped
    \/ ResumeStamped

\* the chunk loop, /stop and /resume while time passes
SpecStamped == Init /\ [][NextStamped]_vars

(* --------------------------- evaluator, called ------------------------- *)
\* lines 111, 117: the provider answers the two requests of a call
Fetch ==
    /\ evaluation.stage = "idle"
    /\ \E info \in Infos : \E hist \in Hists :
          evaluation' = [NoEvaluation EXCEPT !.stage = "fetched",
                                            !.info = info, !.hist = hist]
    /\ UNCHANGED <<scan_vars, alert_vars, health, run_scan, stamped>>

\* lines 112-180: the call returns
Evaluate ==
    /\ evaluation.stage = "fetched"
    /\ evaluation' = [evaluation EXCEPT
                         !.stage = "returned",
                         !.result = CheckTrendTemplate(evaluation.info,
                                                       evaluation.hist),
                         !.warning = Warning(evaluation.info, evaluation.hist)]
    /\ UNCHANGED <<scan_vars, alert_vars, health, run_scan, stamped>>

\* scan_stocks goes on to the next symbol
NextSymbol ==
    /\ evaluation.stage = "returned"
    /\ evaluation' = NoEvaluation
    /\ UNCHANGED <<scan_vars, alert_vars, health, run_scan, stamped>>

NextEval ==
    \/ Fetch
    \/ Evaluate
    \/ NextSymbol

\* check_trend_template called for any answers of the provider
SpecEval == Init /\ [][NextEval]_vars

(* ------------------------------ claims --------------------------------- *)
Indices(scan_type) == 0..(TotalStocks(scan_type) - 1)

ActiveTasks == {t \in Tasks : Active(t)}

\* a call of run_chunked_scan by t is decided in this step while u's run goes on
RejectedBeside(t, u) ==
    /\ t # u
    /\ pc[t] \in GatePcs
    /\ pc'[t] \notin GatePcs
    /\ Active(u)
    /\ pc'[u] \in RunPcs

\* C1: at most one coroutine is between the gate and the return of
\* run_chunked_scan, whatever the scan types and the entry points; a call
\* decided while another run is active returns at once and changes neither
\* the checkpoint, nor the result set, nor the active run's offset.
C1_SingleFlight ==
    /\ [](Cardinality(ActiveTasks) <= 1)
    /\ [][\A t, u \in Tasks :
            RejectedBeside(t, u) =>
              /\ pc'[t] = "none"
              /\ state_file' = state_file
              /\ results_file' = results_file
              /\ offset'[u] = offset[u]
              /\ pc'[u] = pc[u]]_vars

\* a run of one type has evaluated a chunk and a call of the other type waits
C1_Witness ==
    \E t, u \in Tasks :
        /\ Active(t)
        /\ offset[t] > 0
        /\ pc[u] = "pending"
        /\ typ[u] # typ[t]

\* the step in which the call of t is let in
Accepted(t) == pc[t] \in GatePcs /\ pc'[t] \in RunPcs

\* C2: an accepted call that finds a checkpoint of its scan type with
\* offset < total starts at the checkpoint's offset and keeps the result
\* set; any other accepted call starts at 0 with the result set emptied for
\* its type; the offset it starts with stays until a chunk was scanned.
C2_ResumeCorrect ==
    [][\A t \in Tasks :
         /\ Accepted(t) =>
              IF /\ state_file # NoState
                 /\ state_file.scan_type = typ[t]
                 /\ state_file.offset < TotalStocks(typ[t])
              THEN /\ offset'[t] = state_file.offset
                   /\ results_file' = results_file
              ELSE /\ offset'[t] = 0
                   /\ results_file' = EmptyResults(typ[t])
         /\ (Active(t) /\ pc'[t] \in RunPcs /\ offset'[t] # offset[t]) =>
              pc[t] = "advance"]_vars

\* a run that continued a checkpoint at k > 0 is about to write its first
\* checkpoint: it stands at k, and the results found before are still there
C2_Witness ==
    \E t \in Tasks :
        /\ pc[t] = "loop"
        /\ state_file # NoState
        /\ offset[t] = state_file.offset
        /\ offset[t] = CHUNK_SIZE
        /\ results_file.stocks # <<>>

\* C3: the checkpoint on disk is the start of the chunk being evaluated;
\* every index below its offset was evaluated since the fresh start of its
\* scan, none at or beyond offset + CHUNK_SIZE was, so a restart from it
\* skips nothing and repeats at most CHUNK_SIZE symbols; a run that leaves
\* the loop at the end has evaluated the whole universe.
C3_CheckpointBeforeChunk ==
    /\ \A t \in Tasks :
         pc[t] \in {"scan", "add", "notify", "advance"} =>
            /\ state_file # NoState
            /\ state_file.scan_type = typ[t]
            /\ state_file.offset = offset[t]
    /\ state_file # NoState =>
         LET done == evaluated[state_file.scan_type]
         IN  /\ \A i \in Indices(state_file.scan_type) :
                   i < state_file.offset => i \in done
             /\ \A i \in done : i < state_file.offset + CHUNK_SIZE
             /\ Cardinality({i \in done : i >= state_file.offset}) <= CHUNK_SIZE
    /\ \A t \in Tasks :
         pc[t] \in {"clear", "complete_msg"} => evaluated[typ[t]] = Indices(typ[t])

\* the process died while the second chunk was evaluated and the scan was
\* started again: the second chunk is evaluated again, from the checkpoint
C3_Witness ==
    \E t \in Tasks :
        /\ pc[t] = "scan"
        /\ offset[t] = CHUNK_SIZE
        /\ \E i \in evaluated[typ[t]] : i >= offset[t]

\* C4: a stop accepted while a chunk loop runs makes the loop leave at its
\* next look at the stopped flag (line 272): the request is not lost.
C4_StopAtNextBoundary ==
    [][\A t \in Tasks :
         (pc[t] = "advance" /\ stop_requested /\ pc'[t] \in RunPcs \ {"advance"}) =>
            pc'[t] = "stop_msg"]_vars

\* C5: when the loop has seen the stopped flag and leaves, the checkpoint on
\* disk has stopped = true and the advanced offset, the one the stop message
\* reports as scanned.
C5_PausedPersisted ==
    \A t \in Tasks :
        pc[t] = "stop_msg" =>
            /\ state_file # NoState
            /\ state_file.stopped
            /\ state_file.offset = offset[t]

\* C6: resume with a checkpoint on disk, left by a stop or by a crashed run,
\* and no run active, is answered by resuming: the stopped flag is cleared
\* and a run of the checkpoint's scan type is started (which continues at
\* the checkpoint's offset, C2).
C6_ResumeAnyCheckpoint ==
    /\ []((state_file # NoState /\ ActiveTasks = {}) =>
             ResumeAnswer(state_file) = "Resuming")
    /\ [][(ResumeCommand /\ state_file # NoState /\ ActiveTasks = {}) =>
            /\ state_file' = [state_file EXCEPT !.stopped = FALSE]
            /\ \E t \in Tasks :
                 /\ pc[t] = "none"
                 /\ pc'[t] = "resume_reply"
                 /\ typ'[t] = state_file.scan_type]_vars

\* C7: resume without a checkpoint is answered with the error NoCheckpoint;
\* it starts no run, creates no checkpoint and leaves the result set and
\* is_scanning as they are.
C7_ResumeNoCheckpoint ==
    /\ [](state_file = NoState => ResumeAnswer(state_file) = "NoCheckpoint")
    /\ [][(ResumeCommand /\ state_file = NoState) =>
            UNCHANGED <<state_file, results_file, is_scanning, pc, locals>>]_vars

\* no checkpoint is left after a completed scan whose results are stored and
\* no run is active: a resume is refused here, and another call waits
C7_Witness ==
    /\ state_file = NoState
    /\ results_file.stocks # <<>>
    /\ results_file.completed_at
    /\ results_file.scan_type \in ChunkedTypes
    /\ ActiveTasks = {}
    /\ \E t \in Tasks : pc[t] = "pending"

\* C8: a run that left the loop at offset >= total returns with no
\* checkpoint on disk, completed_at set and total_scanned = total, after
\* sending one completion message; only such a run sets completed_at of a
\* chunked result set or removes the checkpoint.
C8_Completion ==
    /\ [](\A t \in Tasks :
            pc[t] = "complete_msg" =>
               /\ state_file = NoState
               /\ results_file.completed_at
               /\ results_file.total_scanned = TotalStocks(typ[t]))
    /\ [][/\ (state_file # NoState /\ state_file' = NoState) =>
               \E t \in Tasks : pc[t] = "clear" /\ pc'[t] = "complete_msg"
          /\ (~results_file.completed_at /\ results_file'.completed_at
                /\ results_file'.scan_type \in ChunkedTypes) =>
               \E t \in Tasks : /\ pc[t] = "loop"
                                /\ offset[t] >= TotalStocks(typ[t])
          /\ \A t \in Tasks :
               (pc[t] \in RunPcs \ {"complete_msg"} /\ pc'[t] = "none") =>
                  UNCHANGED <<state_file, results_file>>]_vars

\* C9: the stored result set never holds a symbol twice and every entry has
\* a score of at least MIN_SCORE.
C9_UniqueQualified ==
    /\ \A i, j \in 1..Len(results_file.stocks) :
          results_file.stocks[i].symbol = results_file.stocks[j].symbol => i = j
    /\ \A i \in 1..Len(results_file.stocks) :
          results_file.stocks[i].score >= MIN_SCORE

\* a chunk is evaluated again: a symbol already stored is about to be added
C9_Witness ==
    \E t \in Tasks :
        /\ pc[t] = "add"
        /\ results_file.scan_type = typ[t]
        /\ Len(results_file.stocks) >= 2
        /\ Head(res[t]).symbol \in Symbols(results_file.stocks)

\* the step of the chunk loop that calls add_to_scan_results
AddStep(t) == pc[t] = "add" /\ pc'[t] = "notify"

\* the entries stored for a symbol
EntriesOf(results, symbol) ==
    {results.stocks[i] : i \in {k \in 1..Len(results.stocks) :
                                   results.stocks[k].symbol = symbol}}

\* C10 as stated: a second add_to_scan_results of the same summary changes
\* nothing, and adding a summary whose symbol is present never changes the
\* entry stored for it.
C10_AppendIdempotent ==
    [][\A t \in Tasks :
         AddStep(t) =>
            LET stock_data == StockData(Head(res[t]))
            IN  /\ AddToScanResults(results_file', stock_data, typ[t]) = results_file'
                /\ stock_data.symbol \in Symbols(results_file.stocks) =>
                     EntriesOf(results_file', stock_data.symbol)
                        = EntriesOf(results_file, stock_data.symbol)]_vars

\* C10 amended: a second add_to_scan_results of the same summary changes
\* nothing, and adding a summary whose symbol is present in a result set of
\* the same scan type changes nothing.
C10_AppendIdempotentSameType ==
    [][\A t \in Tasks :
         AddStep(t) =>
            LET stock_data == StockData(Head(res[t]))
            IN  /\ AddToScanResults(results_file', stock_data, typ[t]) = results_file'
                /\ (/\ results_file.scan_type = typ[t]
                    /\ stock_data.symbol \in Symbols(results_file.stocks)) =>
                     results_file' = results_file]_vars

\* add_to_scan_results was called for a symbol already stored: the count of
\* the run is ahead of the stored set
C10_Witness ==
    \E t \in Tasks :
        /\ pc[t] = "notify"
        /\ results_file.scan_type = typ[t]
        /\ Head(res[t]).symbol \in Symbols(results_file.stocks)
        /\ found_count[t] > Len(results_file.stocks)

\* s is the beginning of r
IsPrefix(s, r) == Len(s) <= Len(r) /\ SubSeq(r, 1, Len(s)) = s

\* C11: add_to_scan_results on a result set of another scan type leaves a
\* set of the new type with completed_at unset, total_scanned 0 and the one
\* summary added; on a set of the same type the entries stored before are
\* kept, in their order.
C11_AppendResetsOnTypeChange ==
    [][\A t \in Tasks :
         AddStep(t) =>
            LET stock_data == StockData(Head(res[t]))
            IN  IF results_file.scan_type # typ[t]
                THEN results_file' = [stocks |-> <<stock_data>>,
                                      scan_type |-> typ[t],
                                      completed_at |-> FALSE,
                                      total_scanned |-> 0]
                ELSE /\ IsPrefix(results_file.stocks, results_file'.stocks)
                     /\ results_file'.scan_type = typ[t]]_vars

\* a chunked run is about to add a find to the result set a quick scan left
C11_Witness ==
    \E t \in Tasks :
        /\ pc[t] = "add"
        /\ results_file.scan_type = "quick"
        /\ results_file.stocks # <<>>
        /\ results_file.completed_at
        /\ offset[t] > 0

\* C12: once a scan of a type other than the checkpoint's has started, no
\* checkpoint of the old type is left on disk, and its start leaves no entry
\* of the old result set.
C12_TypeSwitchDiscards ==
    /\ [](\A t \in Tasks :
            Active(t) => (state_file = NoState \/ state_file.scan_type = typ[t]))
    /\ [][\A t \in Tasks :
            (Accepted(t) /\ state_file # NoState /\ state_file.scan_type # typ[t]) =>
               results_file'.stocks = <<>>]_vars

\* the scan of type scan_type is under way: it runs, or its checkpoint is on
\* disk for a later start or resume
ScanUnderWay(scan_type) ==
    \/ state_file # NoState /\ state_file.scan_type = scan_type
    \/ \E t \in Tasks : Active(t) /\ typ[t] = scan_type

\* C13: while a scan is under way and no scan of another type is started, a
\* symbol stored in its result set stays there: no step removes it.
C13_FoundNeverLost ==
    [][\A scan_type \in ChunkedTypes :
         (/\ ScanUnderWay(scan_type)
          /\ results_file.scan_type = scan_type
          /\ ~\E t \in Tasks : Accepted(t) /\ typ[t] # scan_type) =>
            Symbols(results_file.stocks) \subseteq Symbols(results_file'.stocks)]_vars

\* the step in which scan_stocks returns to the chunk loop of t
ScanStep(t) == pc[t] = "scan" /\ pc'[t] \in {"add", "advance"}

C15_WriteFailureAborts ==
    [][\A t \in Tasks :
         /\ (pc[t] = "loop" /\ pc'[t] = "scan") =>
              state_file' = Checkpoint(typ[t], offset[t], TotalStocks(typ[t]), ChatId)
         /\ (pc[t] = "add" /\ pc'[t] = "notify") =>
              results_file' = AddToScanResults(results_file, StockData(Head(res[t])),
                                               typ[t])]_vars

\* C16: a reader beside the chunk loop never finds the checkpoint file empty
\* or half written: it reads the content before a write or the one after.
C16_AtomicPersistence ==
    health # NoHealth => ~health.read_error

\* the message of a find was sent and the loop goes on to the next find
NotifySentStep(t) ==
    pc[t] = "notify" /\ pc'[t] = "add" /\ res'[t] = Tail(res[t])

\* C17: the chunked scan passes every per-find notification through the
\* alert gate: once the message of a find is sent, the alert history holds
\* a record of the symbol.
C17_AlertGateConsulted ==
    [][\A t \in Tasks :
         NotifySentStep(t) =>
            StockData(Head(res[t])).symbol \in DOMAIN alert_history']_vars

\* the step is a call of should_alert(symbol)
ShouldAlertStep(symbol) ==
    call'.op = "should_alert" /\ call'.symbol = symbol /\ call' # call

\* C18: should_alert(symbol) answers true when the history has no record of
\* the symbol, and otherwise exactly when more than the cooldown has passed
\* since last_alert: false up to and at last_alert + cooldown, true after
\* it; the history is left as it is.
C18_ShouldAlert ==
    [][\A symbol \in AlertSymbols :
         ShouldAlertStep(symbol) =>
            /\ alert_history' = alert_history
            /\ symbol \notin DOMAIN alert_history => call'.answer
            /\ symbol \in DOMAIN alert_history =>
                 LET t0 == alert_history[symbol].last_alert
                 IN  /\ now <= t0 + ALERT_COOLDOWN => ~call'.answer
                     /\ now > t0 + ALERT_COOLDOWN => call'.answer]_vars

\* should_alert was asked exactly one cooldown after the alert and said no
C18_Witness ==
    /\ call.op = "should_alert"
    /\ call.symbol \in DOMAIN alert_history
    /\ now = alert_history[call.symbol].last_alert + ALERT_COOLDOWN
    /\ ~call.answer

\* the step is a call of record_alert(symbol, details)
RecordAlertStep(symbol) ==
    call'.op = "record_alert" /\ call'.symbol = symbol
        /\ alert_history' # alert_history

\* C19: record_alert(symbol, details) writes the symbol's record with the
\* count one higher (1 for a new record), last_alert now and the details
\* given, and leaves the other records alone; so the count of a record is
\* the number of calls since it was created.
C19_RecordAlertUpsert ==
    /\ [](\A symbol \in DOMAIN alert_history :
             alert_history[symbol].alert_count = calls[symbol])
    /\ [][\A symbol \in AlertSymbols :
            RecordAlertStep(symbol) =>
               /\ DOMAIN alert_history' = DOMAIN alert_history \cup {symbol}
               /\ alert_history'[symbol].alert_count =
                     IF symbol \in DOMAIN alert_history
                     THEN alert_history[symbol].alert_count + 1 ELSE 1
               /\ alert_history'[symbol].last_alert = now
               /\ alert_history'[symbol].details = StoredDetails(call'.details)
               /\ \A other \in DOMAIN alert_history \ {symbol} :
                     alert_history'[other] = alert_history[other]]_vars

\* a symbol was recorded a second time, later and with other details than
\* the first time, beside the record of another symbol
C19_Witness ==
    /\ call.op = "record_alert"
    /\ DOMAIN alert_history = AlertSymbols
    /\ alert_history[call.symbol].alert_count = 2
    /\ alert_history[call.symbol].last_alert = now
    /\ now > 0
    /\ alert_history[call.symbol].details = "dict"

\* the step is a call of clear_old_alerts(days)
ClearOldAlertsStep(days) ==
    call'.op = "clear_old_alerts" /\ call'.days = days
        /\ (call' # call \/ alert_history' # alert_history)

\* C20: clear_old_alerts(days) removes exactly the records whose last_alert
\* is before now - days, keeps the one whose last_alert is the cutoff,
\* leaves the kept records as they are and returns the number removed.
C20_ClearOldAlerts ==
    [][\A days \in 0..MaxDays :
         ClearOldAlertsStep(days) =>
            /\ DOMAIN alert_history' =
                  {s \in DOMAIN alert_history :
                      alert_history[s].last_alert >= now - days}
            /\ \A s \in DOMAIN alert_history' : alert_history'[s] = alert_history[s]
            /\ call'.removed = Cardinality(DOMAIN alert_history)
                                  - Cardinality(DOMAIN alert_history')]_vars

\* the step is a call of get_recent_alerts(hours)
GetRecentAlertsStep(hours) ==
    call'.op = "get_recent_alerts" /\ call'.hours = hours /\ call' # call

\* C21: get_recent_alerts(hours) returns one entry for each symbol whose
\* last_alert is later than now - hours and none for another symbol, each
\* with the record's last_alert and details, the later last_alert first;
\* the history is left as it is.
C21_RecentAlerts ==
    [][\A hours \in 0..MaxHours :
         GetRecentAlertsStep(hours) =>
            LET recent == call'.recent
                within == {s \in DOMAIN alert_history :
                              alert_history[s].last_alert > now - hours}
            IN  /\ {recent[i].symbol : i \in 1..Len(recent)} = within
                /\ Len(recent) = Cardinality(within)
                /\ \A i \in 1..Len(recent) :
                      /\ recent[i].timestamp =
                            alert_history[recent[i].symbol].last_alert
                      /\ recent[i].details =
                            alert_history[recent[i].symbol].details
                /\ \A i \in 1..(Len(recent) - 1) :
                      recent[i].timestamp >= recent[i + 1].timestamp
                /\ alert_history' = alert_history
                /\ history_keys' = history_keys]_vars

\* two alerts were returned, the later one first although its key comes
\* second in the history
C21_Witness ==
    /\ call.op = "get_recent_alerts"
    /\ Len(call.recent) = 2
    /\ call.recent[1].timestamp > call.recent[2].timestamp
    /\ Len(history_keys) = 2
    /\ history_keys[1] = call.recent[2].symbol

\* the provider gave data for the symbol, with a history shorter than the
\* long SMA's period or without one of the three SMAs
InsufficientData(info, hist) ==
    /\ info.found
    /\ hist.found
    /\ \/ Len(hist.close) < MA_LONG
       \/ None \in {info.sma_50, info.sma_150, info.sma_200}

\* C22: check_trend_template of a symbol with too short a history or a
\* missing SMA gives no criteria and no score, and what it returns differs
\* from what it returns for a symbol the provider has no data for.
C22_InsufficientDataDistinct ==
    (evaluation.stage = "returned"
        /\ InsufficientData(evaluation.info, evaluation.hist)) =>
       /\ evaluation.result.none
       /\ evaluation.result.criteria = <<>>
       /\ \A hist \in Hists :
             CheckTrendTemplate(NoInfo, hist) # evaluation.result

\* check_trend_template has returned a result
Evaluated == evaluation.stage = "returned" /\ ~evaluation.result.none

\* the keys of the criteria dict, in their order
CriteriaKeys ==
    << "1_price_above_150sma", "2_price_above_200sma", "3_150sma_above_200sma",
       "4_200sma_trending_up", "5_50sma_above_150sma", "6_50sma_above_200sma",
       "7_price_above_50sma", "8_price_30pct_above_52w_low",
       "9_price_within_25pct_of_52w_high" >>

\* C23: in a result, criteria 1-3 and 5-7 are true exactly when the left
\* value is greater than the right one (a tie fails), criterion 8 exactly
\* when (price - low) * 100 >= 30 * low, criterion 9 exactly when
\* (high - price) * 100 <= 25 * high, and the nine entries come in the
\* order 1..9.
C23_CriteriaComparisons ==
    Evaluated =>
       LET i == evaluation.info
           c == evaluation.result.criteria
       IN  /\ Len(c) = 9
           /\ \A k \in 1..9 : c[k].key = CriteriaKeys[k]
           /\ c[1].value <=> i.current_price > i.sma_150
           /\ c[2].value <=> i.current_price > i.sma_200
           /\ c[3].value <=> i.sma_150 > i.sma_200
           /\ c[5].value <=> i.sma_50 > i.sma_150
           /\ c[6].value <=> i.sma_50 > i.sma_200
           /\ c[7].value <=> i.current_price > i.sma_50
           /\ c[8].value <=>
                 (i.current_price - i.week_52_low) * 100 >= 30 * i.week_52_low
           /\ c[9].value <=>
                 (i.week_52_high - i.current_price) * 100 <= 25 * i.week_52_high

\* a result for a price that equals the 150-day SMA and is exactly 30%
\* above the 52-week low: criterion 1 fails, criterion 8 passes
C23_Witness ==
    /\ Evaluated
    /\ evaluation.info.current_price = evaluation.info.sma_150
    /\ evaluation.info.current_price * 10 = evaluation.info.week_52_low * 13
    /\ ~evaluation.result.criteria[1].value
    /\ evaluation.result.criteria[8].value

Sufficient(info, hist) ==
    /\ info.found
    /\ hist.found
    /\ Len(hist.close) >= MA_LONG
    /\ None \notin {info.sma_50, info.sma_150, info.sma_200}

\* C25: with a history of at least the long period plus the lookback,
\* criterion 4 is true exactly when the long SMA of the last session is
\* greater than the long SMA of the lookback earlier; with a shorter history
\* that is long enough for the long SMA the evaluation still returns a
\* result, criterion 4 is false in it, the score is at most 8 and scan_stocks
\* with min_score 9 does not take the result.
C25_UptrendCriterion ==
    (evaluation.stage = "returned"
        /\ Sufficient(evaluation.info, evaluation.hist)) =>
       LET close == evaluation.hist.close
           r == evaluation.result
       IN  /\ ~r.none
           /\ Len(close) >= MA_LONG + MIN_200_SMA_UPTREND_DAYS =>
                 (r.criteria[4].value <=>
                    WindowSum(close, MA_LONG, Len(close)) >
                       WindowSum(close, MA_LONG,
                                 Len(close) - MIN_200_SMA_UPTREND_DAYS))
           /\ Len(close) < MA_LONG + MIN_200_SMA_UPTREND_DAYS =>
                 /\ ~r.criteria[4].value
                 /\ r.score <= 8
                 /\ ~Qualifies(OutcomeOf(r), MIN_SCORE)

\* a result for a history one session too short for the lookback in which
\* every criterion but the fourth is true
C25_Witness ==
    /\ Evaluated
    /\ Len(evaluation.hist.close) = MA_LONG + MIN_200_SMA_UPTREND_DAYS - 1
    /\ ~evaluation.result.criteria[4].value
    /\ evaluation.result.score = 8

\* the step is a quick scan storing its results
QuickScanStored ==
    results_file' # results_file /\ results_file'.scan_type = "quick"

\* C26: a quick scan asked for while a chunk loop is running is rejected:
\* it never stores its results over those of the running scan.
C26_QuickScanSingleFlight ==
    [][QuickScanStored => \A t \in Tasks : ~InChunkLoop(t)]_vars

\* the gate turns away the coroutine of a trigger_scan request that was
\* answered with scan_started, because another run is active
TriggeredRejected(t) ==
    /\ pc[t] = "triggered"
    /\ pc'[t] = "none"
    /\ is_scanning /\ is_scanning'
    /\ \E u \in Tasks \ {t} : Active(u) /\ pc'[u] = pc[u]

\* C27: trigger_scan answers scan_started only for a request that begins a
\* chunk loop: the coroutine of such a request is never turned away by
\* the gate.
C27_TriggerTypedOutcome ==
    [][\A t \in Tasks : ~TriggeredRejected(t)]_vars

\* C28: completed_at is null while a scan is running or can be resumed:
\* whenever a checkpoint exists whose scan type is that of the result set,
\* the result set's completed_at is not set.
C28_CompletedAtNullWhileResumable ==
    (state_file # NoState /\ state_file.scan_type = results_file.scan_type)
        => ~results_file.completed_at

\* C29: the offset of a run stays within 0..total, so the count a stop or
\* progress message reports is at most the total (at most 100%).
C29_OffsetWithinTotal ==
    \A t \in Tasks :
        Active(t) =>
           /\ 0 <= offset[t]
           /\ offset[t] <= TotalStocks(typ[t])

\* the checkpoint on disk is one a call for scan_type continues from
Resumable(scan_type) ==
    /\ state_file # NoState
    /\ state_file.scan_type = scan_type
    /\ state_file.offset < TotalStocks(scan_type)

\* the step in which t begins to send the start message
StartNotified(t) == pc[t] # "start_msg" /\ pc'[t] = "start_msg"

\* C30: the start message is sent for an accepted call that starts a new
\* scan, at offset 0 with the result set reset, once, at the gate; an
\* accepted call that continues from a checkpoint and a rejected call send
\* none.
C30_StartNotificationOnFreshStart ==
    [][\A t \in Tasks :
         /\ StartNotified(t) =>
               /\ pc[t] \in GatePcs
               /\ ~is_scanning
               /\ ~Resumable(typ[t])
               /\ offset'[t] = 0
               /\ results_file' = EmptyResults(typ[t])
         /\ Accepted(t) => (StartNotified(t) <=> ~Resumable(typ[t]))]_vars

\* a call sends the start message although a checkpoint is on disk: the
\* checkpoint is of the other scan type
C30_Witness ==
    \E t \in Tasks :
        /\ pc[t] = "start_msg"
        /\ offset[t] = 0
        /\ results_file = EmptyResults(typ[t])
        /\ state_file # NoState
        /\ state_file.scan_type # typ[t]

\* the for loop over the results of a chunk is left from the send of a find
ChunkLeftAtNotify(t) == pc[t] = "notify" /\ pc'[t] = "advance"

\* C31: a failed send of a find loses no other find of the chunk: when the
\* loop over the chunk's results is left, the results that came after the
\* one whose message was being sent are in the result set.
C31_FailedSendLosesNoFind ==
    [][\A t \in Tasks :
         ChunkLeftAtNotify(t) =>
            \A i \in 2..Len(res[t]) :
               res[t][i].symbol \in Symbols(results_file'.stocks)]_vars

\* the alert_count stored for a symbol, 0 without a record
AlertCount(symbol) ==
    IF symbol \in DOMAIN alert_history
    THEN alert_history[symbol].alert_count ELSE 0

\* run_scan has sent the alert of a symbol and not yet recorded it
RecordPending(symbol) ==
    run_scan.pc = "record" /\ Head(run_scan.results) = symbol

\* the step is a send of an alert for symbol that succeeded
AlertSent(symbol) == run_scan'.sends[symbol] = run_scan.sends[symbol] + 1

\* the step is a send of an alert that failed
AlertFailed ==
    run_scan.pc = "send" /\ run_scan'.pc # "send" /\ run_scan'.sends = run_scan.sends

\* C32: run_scan sends an alert only with send_alerts on and should_alert
\* true; the records written are those of the alerts sent, one for one;
\* two alerts sent for one symbol are more than the cooldown apart; a
\* failed send leaves the history as it is.
C32_RunScanAlertGate ==
    /\ [](run_scan.pc \in {"send", "record"} => run_scan.send_alerts)
    /\ [](run_scan.pc = "send" =>
             ShouldAlert(alert_history, Head(run_scan.results), now))
    /\ [](\A symbol \in AlertSymbols :
             /\ run_scan.sends[symbol] =
                   AlertCount(symbol) + (IF RecordPending(symbol) THEN 1 ELSE 0)
             /\ (symbol \in DOMAIN alert_history /\ ~RecordPending(symbol)) =>
                   alert_history[symbol].last_alert >= run_scan.last_sent[symbol])
    /\ [][/\ \A symbol \in AlertSymbols :
              AlertSent(symbol) =>
                 \/ run_scan.last_sent[symbol] = Never
                 \/ now - run_scan.last_sent[symbol] > ALERT_COOLDOWN
          /\ AlertFailed => alert_history' = alert_history]_vars

\* a second alert was sent and recorded for a symbol
C32_Witness ==
    \E symbol \in AlertSymbols :
        /\ run_scan.sends[symbol] = 2
        /\ AlertCount(symbol) = 2
        /\ alert_history[symbol].last_alert >= run_scan.last_sent[symbol]

\* the chunks of a scan of scan_type: ceil(total / CHUNK_SIZE)
NumChunks(scan_type) == (TotalStocks(scan_type) + CHUNK_SIZE - 1) \div CHUNK_SIZE

\* the run of t has completed: checkpoint cleared, completed_at stamped
Completed(t) ==
    /\ pc[t] = "complete_msg"
    /\ state_file = NoState
    /\ results_file.completed_at

Left(t) == Active(t) /\ pc'[t] \notin RunPcs

\* C34: is_scanning is true exactly while a coroutine is between the gate and
\* the return of run_chunked_scan: every step in which a run ends, by
\* completion, by the stop it has seen or by an exception, leaves the flag
\* false, and a call turned away leaves the flag of the active run set.
C34_FlagReleased ==
    /\ [](is_scanning <=> ActiveTasks # {})
    /\ [][/\ \A t \in Tasks : Left(t) => ~is_scanning'
          /\ \A t, u \in Tasks : RejectedBeside(t, u) => is_scanning']_vars

\* a run has ended before its completion and has left its checkpoint, not
\* stopped, while the call of another coroutine is about to reach the gate
C34_Witness ==
    /\ ~is_scanning
    /\ state_file # NoState
    /\ ~state_file.stopped
    /\ state_file.offset > 0
    /\ \E t \in Tasks : pc[t] = "pending"

\* the run under way has written its checkpoint
CheckpointWritten == stamped.pc = "chunk"

\* C35: the checkpoint a run writes after starting anew carries a started_at
\* that is not older than that start, also when a checkpoint was on disk at
\* the start; the checkpoint a run writes after resuming carries the
\* started_at of the checkpoint it resumed.
C35_StartedAt ==
    CheckpointWritten =>
        IF stamped.fresh
        THEN stamped.file.started_at >= stamped.began
        ELSE stamped.file.started_at = stamped.state.started_at

\* the run of t is about to send a message that reports found_count
ReportsFound(t) == pc[t] \in {"stop_msg", "progress_msg"}

\* C36: the count a stop or progress message of a chunked scan reports is
\* the number of entries of the stored result set at that moment.
C36_FoundIsStoredCount ==
    \A t \in Tasks :
        (ReportsFound(t) /\ results_file.scan_type = typ[t]) =>
            found_count[t] = Len(results_file.stocks)

\* C37: whenever the event loop can run a handler, /progress reports
\* Running, and /resume answers that the scan is already running, only
\* while a coroutine is between the gate and the return of
\* run_chunked_scan; so a checkpoint left without the stopped flag by a run
\* that is over is not reported as Running and can be resumed.
C37_StatusMatchesLoop ==
    LoopFree =>
        /\ ProgressAnswer(state_file, results_file) = "Running" => ActiveTasks # {}
        /\ ResumeAnswer(state_file) = "NotStopped" => ActiveTasks # {}

\* the scan types asked of /trigger-scan/<scan_type>
TriggerTypes == ChunkedTypes \cup {"quick"}

\* a coroutine of run_chunked_scan is handed to the event loop in this step
Scheduled == \E t \in Tasks : pc[t] = "none" /\ pc'[t] = "pending"

\* a request that is answered with scan_started has a coroutine scheduled,
\* any other schedules nothing, and none writes a file
TriggerStep(scan_type) ==
    TriggerScan(scan_type) =>
        /\ state_file' = state_file
        /\ results_file' = results_file
        /\ is_scanning' = is_scanning
        /\ IF TriggerAnswer(scan_type, state_file) = "scan_started"
           THEN Scheduled
           ELSE pc' = pc

\* the checkpoint is gone and the result set is stamped: a chunked scan has
\* completed and no other was started since
AfterCompletion ==
    /\ state_file = NoState
    /\ results_file.completed_at
    /\ results_file.scan_type \in ChunkedTypes

\* C38 as stated: trigger_scan schedules a chunk loop exactly when a
\* checkpoint holding a chat_id exists, whatever the scan type asked for.
C38_TriggerIffCheckpoint ==
    \A scan_type \in TriggerTypes :
        TriggerAnswer(scan_type, state_file) = "scan_started" <=> state_file # NoState

\* C38, for the scan types fullscan and scanall: trigger_scan schedules a
\* chunk loop exactly when a checkpoint holding a chat_id exists; in the
\* initial state and after a completion it answers with an error; it
\* schedules nothing when it answers with an error and never changes the
\* checkpoint or the result set.
C38_TriggerNeedsCheckpoint ==
    /\ [](\A scan_type \in ChunkedTypes :
             TriggerAnswer(scan_type, state_file) = "scan_started" <=> state_file # NoState)
    /\ [](AfterCompletion =>
             \A scan_type \in TriggerTypes :
                 TriggerAnswer(scan_type, state_file) # "scan_started")
    /\ [][\A scan_type \in TriggerTypes : TriggerStep(scan_type)]_vars

\* a scan has completed and a coroutine scheduled by an earlier request, or
\* by a command, has not reached the gate yet
C38_Witness ==
    /\ AfterCompletion
    /\ ~is_scanning
    /\ \E t \in Tasks : pc[t] = "pending"

====
